---------------------------- MODULE Spec2Model ----------------------------
(***************************************************************************)
(* Damage series reconstruction of OCRProcessorApp.process_ocr             *)
(* (src/damage_ocr.py).                                                    *)
(*                                                                         *)
(* Damage values are Python floats counted in trillions.  They are held    *)
(* here in fixed point, as integer multiples of 1/UnitsPerTrillion of a    *)
(* trillion, so that every value the loop computes from integer digit      *)
(* readings (t + h / 10000.0, sums and differences of such values) and     *)
(* both reset thresholds are represented exactly; floating-point rounding  *)
(* is not modelled.                                                        *)
(***************************************************************************)
EXTENDS Integers, Sequences, FiniteSets, TLC

(***************************************************************************)
(* Fixed-point resolution and the constants of process_ocr.                *)
(***************************************************************************)
\* 0.00001 trillion is one unit
UnitsPerTrillion == 100000

\* the divisor of hundred_million_val / 10000.0
HundredMillionPerTrillion == 10000

\* RESET_DROP_FACTOR = 0.01, as the fraction num/den
RESET_DROP_FACTOR == [num |-> 1, den |-> 100]

\* SMALL_ABSOLUTE_RESET_THRESHOLD = 0.00001 trillion, in units
SMALL_ABSOLUTE_RESET_THRESHOLD == 1

\* default of the frame_interval entry
DefaultFrameInterval == 24

(***************************************************************************)
(* Bounds of the model.                                                    *)
(***************************************************************************)
\* the largest max_frame_num is MaxIntervals strides of the default interval
MaxIntervals == 4

\* the sheet is held as the frame numbers of all its rows (ws_frames) and its
\* last RowWindow rows in full (rows)
RowWindow == 2

\* absent marker of max_frame_num: all_frame_numbers is empty
NoFrames == 0 - 1

\* start_frame entries: one invalid, the default, one stride in, one far out
StartFrames == {0 - 1, 0, DefaultFrameInterval, 5 * DefaultFrameInterval}

\* frame_interval entries: one invalid, the default, a double stride
FrameIntervals == {0, DefaultFrameInterval, 2 * DefaultFrameInterval}

\* fps entries in hundredths: one invalid, the default 23.84
FpsValues == {0, 2384}

\* largest frame number found in the two folders, or NoFrames
MaxFrameNums == {NoFrames, 0, 2 * DefaultFrameInterval + 2,
                 MaxIntervals * DefaultFrameInterval}

(***************************************************************************)
(* OCR text: a sequence of one-character strings.                          *)
(***************************************************************************)
DigitVal == [c \in {"0", "1", "2", "3", "4", "5", "6", "7", "8", "9"} |->
               CASE c = "0" -> 0 [] c = "1" -> 1 [] c = "2" -> 2
                 [] c = "3" -> 3 [] c = "4" -> 4 [] c = "5" -> 5
                 [] c = "6" -> 6 [] c = "7" -> 7 [] c = "8" -> 8
                 [] c = "9" -> 9]

IsDigit(c) == c \in DOMAIN DigitVal

\* pairs <<trillion text, hundred-million text>> the two ocr_image calls of
\* one frame may return: digit strings, strings with other characters, and
\* the empty string of a failed recognition
OcrTexts == {
    << <<"0">>, <<"0">> >>,
    << <<>>, <<>> >>,
    << <<"0">>, <<"1">> >>,
    << <<>>, <<"5">> >>,
    << <<"0">>, <<"2", "0", "0", "0">> >>,
    << <<"0">>, <<"3", "0", "0", "0">> >>,
    << <<"1">>, <<"2", "0", "0", "0">> >>,
    << <<"2">>, <<"1", "5", "0", "0">> >>,
    << <<"3">>, <<"0">> >>,
    << <<" ", "3">>, <<"1", "0", "0", "0", " ", "7">> >>,
    << <<"3">>, <<"5", "0", "0", "0">> >>,
    << <<"3">>, <<"6", "0", "0", "0">> >>,
    << <<"5">>, <<>> >>,
    << <<"5">>, <<"2", "0", "0", "0">> >> }

\* index of the first digit of text at or after i, Len(text) + 1 if none
RECURSIVE FirstDigit(_, _)
FirstDigit(text, i) ==
    IF i > Len(text) THEN Len(text) + 1
    ELSE IF IsDigit(text[i]) THEN i
    ELSE FirstDigit(text, i + 1)

\* int() of the maximal digit run of text starting at i, acc the value so far
RECURSIVE DigitRun(_, _, _)
DigitRun(text, i, acc) ==
    IF i > Len(text) \/ ~IsDigit(text[i]) THEN acc
    ELSE DigitRun(text, i + 1, acc * 10 + DigitVal[text[i]])

\* int(re.findall(r'\d+', text)[0]), or 0 when there is no digit
get_number_from_ocr_text(text) ==
    IF FirstDigit(text, 1) > Len(text) THEN 0
    ELSE DigitRun(text, FirstDigit(text, 1), 0)


(***************************************************************************)
(* The arithmetic and the decisions of one loop iteration.                 *)
(***************************************************************************)
\* a slip: the hundred-million digits divided by 1000.0
RawDamagePerThousand(t, h) ==
    t * UnitsPerTrillion + (h * UnitsPerTrillion) \div 1000

\* raw_current_damage_from_ocr = trillion_val + hundred_million_val / 10000.0
RawDamage(t, h) ==
    t * UnitsPerTrillion + (h * UnitsPerTrillion) \div HundredMillionPerTrillion

\* raw < baseline * RESET_DROP_FACTOR
BelowDropFactor(raw, baseline) ==
    raw * RESET_DROP_FACTOR.den < baseline * RESET_DROP_FACTOR.num

\* a slip: the absolute threshold is not tested
ResetOnDropAlone(baseline, raw) ==
    /\ baseline > 0
    /\ BelowDropFactor(raw, baseline)

\* a slip: a zero reading is taken for a failed recognition and never resets
ResetIgnoringZero(baseline, raw) ==
    /\ baseline > 0
    /\ BelowDropFactor(raw, baseline)
    /\ 0 < raw /\ raw < SMALL_ABSOLUTE_RESET_THRESHOLD

\* the condition of the reset branch
ResetDetected(baseline, raw) ==
    /\ baseline > 0
    /\ BelowDropFactor(raw, baseline)
    /\ raw < SMALL_ABSOLUTE_RESET_THRESHOLD

\* a slip: a reset leaves reset_offset as it was
OffsetKept(is_reset, overall, offset) == offset

\* reset_offset after the reset check
OffsetAfterCheck(is_reset, overall, offset) ==
    IF is_reset THEN overall ELSE offset

\* a slip: the baseline is not cleared at a reset
BaselineKept(is_reset, baseline) == baseline

\* last_successful_ocr_value_in_current_phase after the reset check
BaselineAfterCheck(is_reset, baseline) ==
    IF is_reset THEN 0 ELSE baseline

\* a slip: the reset offset is not added
CalculatedWithoutOffset(raw, offset) == raw

\* current_calculated_overall_damage
CalculatedOverall(raw, offset) == raw + offset

\* a slip: the monotonicity test is missing
DecreasesNever(calculated, overall) == FALSE

\* a slip: an equal total is rejected too
DecreasesOrEqual(calculated, overall) == calculated <= overall

\* the condition of the "maintain previous overall value" branch
Decreases(calculated, overall) == calculated < overall

\* a slip: the accept branch leaves the baseline as it was
BaselineNeverRaised(raw, baseline, is_reset) == baseline

\* last_successful_ocr_value_in_current_phase after the accept branch
BaselineAfterAccept(raw, baseline, is_reset) ==
    IF raw > 0 /\ (raw >= baseline \/ is_reset) THEN raw ELSE baseline

\* a slip: an unchanged total falls through to the clamp
ChangeBranchStrict(previous, total) ==
    IF previous = 0 /\ total > 0 THEN "first"
    ELSE IF total > previous THEN "diff"
    ELSE "clamp"

\* which branch of the damage-change computation runs
ChangeBranch(previous, total) ==
    IF previous = 0 /\ total > 0 THEN "first"
    ELSE IF total >= previous THEN "diff"
    ELSE "clamp"

\* a slip: the first nonzero total is treated like any other row
DamageChangeNoFirst(previous, total) ==
    IF previous > 0 /\ total >= previous THEN total - previous ELSE 0

\* a slip: the change is the total itself on every row
DamageChangeAbsolute(previous, total) == total

\* damage_change
DamageChange(previous, total) ==
    CASE ChangeBranch(previous, total) = "first" -> total
      [] ChangeBranch(previous, total) = "diff" -> total - previous
      [] OTHER -> 0

\* a slip: the last frame is excluded
LoopStopsBeforeMax(current, max) == current < max

\* a slip: one image is enough for the frame to be read
EitherImage(trillion_path, hundred_million_path) ==
    trillion_path \/ hundred_million_path

\* the test "trillion_img_path and hundred_million_img_path"
BothImages(trillion_path, hundred_million_path) ==
    trillion_path /\ hundred_million_path

\* the while condition of the frame loop
LoopContinues(current, max) == current <= max

\* a slip: the frame number is not advanced
NextFrameStuck(current, interval) == current

\* current_frame_to_process += frame_interval
NextFrame(current, interval) == current + interval

\* row_data
Row(frame, t, h, total, change) ==
    [frame |-> frame, trillion |-> t, hundred_million |-> h,
     total |-> total, change |-> change]

\* ws.append(row_data), seen through the window of the last RowWindow rows
AppendRow(window, row) ==
    IF Len(window) < RowWindow THEN Append(window, row)
    ELSE Append(Tail(window), row)

(***************************************************************************)
(* Input runs followed by the observer variable followed.                  *)
(***************************************************************************)
\* raws 5.0, 5.2, 0.0001, 0.3
DropRun == << <<5, 0>>, <<5, 2000>>, <<0, 1>>, <<0, 3000>> >>

\* raws 5.0, 5.2, 0, 0.3
ZeroRun == << <<5, 0>>, <<5, 2000>>, <<0, 0>>, <<0, 3000>> >>

\* raws 3.0, 3.5, 0.2, 3.6
DipRun == << <<3, 0>>, <<3, 5000>>, <<0, 2000>>, <<3, 6000>> >>

\* the concrete five-frame run
FiveRun == << <<0, 0>>, <<1, 2000>>, <<2, 1500>>, <<0, 5>>, <<3, 1000>> >>

Runs == [drop |-> DropRun, zero |-> ZeroRun, dip |-> DipRun, five |-> FiveRun]

\* not following
Off == 0 - 1

\* followed[r] after a frame read as the digit pair reading
Follow(k, run, reading) ==
    IF k >= 0 /\ k < Len(run) /\ run[k + 1] = reading THEN k + 1 ELSE Off

\* phase_gain after a present frame: whether a frame after the last reset
\* frame (or after the start of the run) was accepted with a raw value above 0
Gain(gain, raw, is_reset, reject) ==
    IF is_reset THEN FALSE ELSE gain \/ (~reject /\ raw > 0)

\* closed_peaks after a present frame: a reset frame closes the phase before
\* it, whose highest raw value joins the sum
Closed(closed, peak, is_reset) ==
    IF is_reset THEN closed + peak ELSE closed

\* phase_peak after a frame read as raw: a reset frame starts a new phase
Peak(peak, raw, is_reset) ==
    IF is_reset \/ raw > peak THEN raw ELSE peak

(***************************************************************************)
(* State.                                                                  *)
(***************************************************************************)
VARIABLES
    pc,                 \* "start", "loop", "done" or "error"
    folders_ok,         \* both folder entries are directories
    entries_numeric,    \* int() and float() of the three entries succeed
    start_frame,        \* int(self.start_frame_num.get())
    frame_interval,     \* int(self.frame_interval.get())
    fps,                \* float(self.video_fps.get()), in hundredths
    max_frame_num,      \* max(all_frame_numbers), NoFrames when it is empty
    current_frame_to_process,
    overall_accumulated_damage,
    last_successful_ocr_value_in_current_phase,
    reset_offset,
    last_valid_jo,
    last_valid_uk,
    previous_total_damage_for_diff,
    trillion_img_path,          \* TRUE when trillion_map has the frame
    hundred_million_img_path,   \* TRUE when hundred_million_map has the frame
    trillion_text,
    hundred_million_text,
    trillion_val,
    hundred_million_val,
    is_reset_detected,
    branch,             \* "none", "accepted", "rejected" or "missing"
    change_branch,      \* "none", "first", "diff" or "clamp"
    ws_frames,          \* frame numbers of the rows appended to the sheet
    rows,               \* the last RowWindow rows appended to the sheet
    followed,           \* per run of Runs: frames matched so far, or Off
    phase_peak,         \* largest raw value read since the last reset frame
    phase_gain,         \* a positive raw was accepted since the last reset
    closed_peaks        \* sum of the highest raw values of the closed phases

config == <<folders_ok, entries_numeric, start_frame, frame_interval, fps, max_frame_num>>

tracking == <<overall_accumulated_damage,
              last_successful_ocr_value_in_current_phase, reset_offset,
              last_valid_jo, last_valid_uk, previous_total_damage_for_diff>>

locals == <<trillion_img_path, hundred_million_img_path, trillion_text,
            hundred_million_text, trillion_val, hundred_million_val,
            is_reset_detected, branch, change_branch>>

observers == <<followed, phase_peak, phase_gain, closed_peaks>>

(***************************************************************************)
(* VideoROISelector: the state of the object and of its widgets.           *)
(***************************************************************************)
VARIABLES
    video_path,         \* None or the path chosen in the file dialog
    roi1,               \* None or the rectangle (x, y, w, h) of the trillion ROI
    roi2,               \* None or the rectangle of the hundred-million ROI
    current_roi_drawing,\* None or the rectangle drawn and not yet confirmed
    current_roi_step,   \* 0 select video, 1 draw roi1, 2 draw roi2, 3 ready
    frame_for_roi,      \* a frame is held and shown, the canvas is bound
    drawing,            \* the mouse button is down on the canvas
    ix, iy,             \* where the mouse button went down
    btn_select_video,   \* state of each button: "normal" or "disabled"
    btn_confirm_roi,
    btn_redraw_roi,
    btn_process,
    canvas,             \* tags of the items on the canvas
    message,            \* the last message box shown
    handler,            \* the callback that ran last
    through_widgets     \* every callback so far came from an enabled widget

selector == <<video_path, roi1, roi2, current_roi_drawing, current_roi_step,
              frame_for_roi, drawing, ix, iy, btn_select_video,
              btn_confirm_roi, btn_redraw_roi, btn_process, canvas, message,
              handler, through_widgets>>

reader == <<pc, config, current_frame_to_process, tracking, locals,
            ws_frames, rows, observers>>

vars == <<reader, selector>>

\* a slip: an interval of 0 passes the check
InputErrorAllowsZeroInterval ==
    \/ ~folders_ok
    \/ ~entries_numeric
    \/ start_frame < 0 \/ frame_interval < 0 \/ fps <= 0
    \/ max_frame_num = NoFrames

\* the checks that make process_ocr return before the loop
InputError ==
    \/ ~folders_ok
    \/ ~entries_numeric
    \/ start_frame < 0 \/ frame_interval <= 0 \/ fps <= 0
    \/ max_frame_num = NoFrames

\* Python's None
None == <<>>

\* VideoROISelector.__init__
SelectorStart ==
    /\ video_path = None
    /\ roi1 = None
    /\ roi2 = None
    /\ current_roi_drawing = None
    /\ current_roi_step = 0
    /\ frame_for_roi = FALSE
    /\ drawing = FALSE
    /\ ix = 0 - 1
    /\ iy = 0 - 1
    /\ btn_select_video = "normal"
    /\ btn_confirm_roi = "disabled"
    /\ btn_redraw_roi = "disabled"
    /\ btn_process = "disabled"
    /\ canvas = {}
    /\ message = "none"
    /\ handler = "none"
    /\ through_widgets = TRUE

Init ==
    /\ SelectorStart
    /\ pc = "start"
    /\ folders_ok \in BOOLEAN
    /\ entries_numeric \in BOOLEAN
    /\ start_frame \in StartFrames
    /\ frame_interval \in FrameIntervals
    /\ fps \in FpsValues
    /\ max_frame_num \in MaxFrameNums
    /\ current_frame_to_process = 0
    /\ overall_accumulated_damage = 0
    /\ last_successful_ocr_value_in_current_phase = 0
    /\ reset_offset = 0
    /\ last_valid_jo = 0
    /\ last_valid_uk = 0
    /\ previous_total_damage_for_diff = 0
    /\ trillion_img_path = FALSE
    /\ hundred_million_img_path = FALSE
    /\ trillion_text = <<>>
    /\ hundred_million_text = <<>>
    /\ trillion_val = 0
    /\ hundred_million_val = 0
    /\ is_reset_detected = FALSE
    /\ branch = "none"
    /\ change_branch = "none"
    /\ ws_frames = <<>>
    /\ rows = <<>>
    /\ followed = [r \in DOMAIN Runs |-> 0]
    /\ phase_peak = 0
    /\ phase_gain = FALSE
    /\ closed_peaks = 0

\* an input check fails: the error is shown and process_ocr returns
RejectInput ==
    /\ pc = "start"
    /\ InputError
    /\ pc' = "error"
    /\ UNCHANGED <<config, current_frame_to_process, tracking, locals,
                   ws_frames, rows, observers, selector>>

\* the checks pass: the sheet and the tracking variables are set up
StartLoop ==
    /\ pc = "start"
    /\ ~InputError
    /\ pc' = "loop"
    /\ current_frame_to_process' = start_frame
    /\ overall_accumulated_damage' = 0
    /\ last_successful_ocr_value_in_current_phase' = 0
    /\ reset_offset' = 0
    /\ last_valid_jo' = 0
    /\ last_valid_uk' = 0
    /\ previous_total_damage_for_diff' = 0
    /\ ws_frames' = <<>>
    /\ rows' = <<>>
    /\ UNCHANGED <<config, locals, observers, selector>>

\* the tail of every iteration: damage change, the row, the next frame
LogRow(t, h, total) ==
    /\ change_branch' = ChangeBranch(previous_total_damage_for_diff, total)
    /\ previous_total_damage_for_diff' = total
    /\ ws_frames' = Append(ws_frames, current_frame_to_process)
    /\ rows' = AppendRow(rows, Row(current_frame_to_process, t, h, total,
                     DamageChange(previous_total_damage_for_diff, total)))
    /\ current_frame_to_process' =
           NextFrame(current_frame_to_process, frame_interval)

\* one iteration on a frame that has both images
ProcessPresent ==
    /\ pc = "loop"
    /\ LoopContinues(current_frame_to_process, max_frame_num)
    /\ \E ti \in BOOLEAN, hi \in BOOLEAN :
         /\ BothImages(ti, hi)
         \* max_frame_num is a key of one of the two maps
         /\ current_frame_to_process = max_frame_num => (ti \/ hi)
         /\ \E texts \in OcrTexts :
            \* each value of the iteration is computed once, in program order
            \E t \in {get_number_from_ocr_text(texts[1])},
               h \in {get_number_from_ocr_text(texts[2])} :
            \E raw \in {RawDamage(t, h)} :
            \E is_reset \in
                 {ResetDetected(last_successful_ocr_value_in_current_phase, raw)} :
            \E offset \in {OffsetAfterCheck(is_reset, overall_accumulated_damage,
                                            reset_offset)},
               baseline \in {BaselineAfterCheck(is_reset,
                                 last_successful_ocr_value_in_current_phase)} :
            \E calculated \in {CalculatedOverall(raw, offset)} :
            \E reject \in {Decreases(calculated, overall_accumulated_damage)} :
            \E total \in {IF reject THEN overall_accumulated_damage
                          ELSE calculated},
               jo \in {IF reject THEN last_valid_jo ELSE t},
               uk \in {IF reject THEN last_valid_uk ELSE h} :
                  /\ trillion_img_path' = ti
                  /\ hundred_million_img_path' = hi
                  /\ trillion_text' = texts[1]
                  /\ hundred_million_text' = texts[2]
                  /\ trillion_val' = t
                  /\ hundred_million_val' = h
                  /\ is_reset_detected' = is_reset
                  /\ reset_offset' = offset
                  /\ branch' = IF reject THEN "rejected" ELSE "accepted"
                  /\ overall_accumulated_damage' = total
                  /\ last_successful_ocr_value_in_current_phase' =
                         IF reject THEN baseline
                         ELSE BaselineAfterAccept(raw, baseline, is_reset)
                  /\ last_valid_jo' = jo
                  /\ last_valid_uk' = uk
                  /\ LogRow(jo, uk, total)
                  /\ followed' = [r \in DOMAIN Runs |->
                                    Follow(followed[r], Runs[r], <<t, h>>)]
                  /\ phase_peak' = Peak(phase_peak, raw, is_reset)
                  /\ phase_gain' = Gain(phase_gain, raw, is_reset, reject)
                  /\ closed_peaks' = Closed(closed_peaks, phase_peak, is_reset)
    /\ UNCHANGED <<pc, config, selector>>

\* one iteration on a frame that lacks one image or both
ProcessMissing ==
    /\ pc = "loop"
    /\ LoopContinues(current_frame_to_process, max_frame_num)
    /\ \E ti \in BOOLEAN, hi \in BOOLEAN :
         /\ ~BothImages(ti, hi)
         \* max_frame_num is a key of one of the two maps
         /\ current_frame_to_process = max_frame_num => (ti \/ hi)
         /\ trillion_img_path' = ti
         /\ hundred_million_img_path' = hi
    /\ trillion_text' = <<>>
    /\ hundred_million_text' = <<>>
    /\ trillion_val' = 0
    /\ hundred_million_val' = 0
    /\ is_reset_detected' = FALSE
    /\ branch' = "missing"
    /\ LogRow(last_valid_jo, last_valid_uk, overall_accumulated_damage)
    /\ followed' = [r \in DOMAIN Runs |-> Off]
    /\ UNCHANGED <<phase_peak, phase_gain, closed_peaks>>
    /\ UNCHANGED <<pc, config, overall_accumulated_damage,
                   last_successful_ocr_value_in_current_phase, reset_offset,
                   last_valid_jo, last_valid_uk, selector>>

\* the loop condition fails: the sheet is complete
Finish ==
    /\ pc = "loop"
    /\ ~LoopContinues(current_frame_to_process, max_frame_num)
    /\ pc' = "done"
    /\ UNCHANGED <<config, current_frame_to_process, tracking, locals,
                   ws_frames, rows, observers, selector>>

Next ==
    \/ RejectInput
    \/ StartLoop
    \/ ProcessPresent
    \/ ProcessMissing
    \/ Finish

Spec == Init /\ [][Next]_vars

\* process_ocr runs on one thread with nothing to wait for: it keeps stepping
FairSpec == Spec /\ WF_vars(Next)

(***************************************************************************)
(* VideoROISelector: its callbacks.                                        *)
(***************************************************************************)
\* what the file dialog returns, as a sequence of path components: the empty
\* path when it is cancelled
Paths == {<<>>, <<"battle.mp4">>}

\* how show_frame_for_roi ends: the frame is shown, the capture does not
\* open, no frame is read, or fps is 0 and the division of line 494 raises
VideoOutcomes == {"shown", "unopened", "unread", "raised"}

\* how process_video ends once both ROIs are set
ProcessOutcomes == {"unopened", "complete", "raised"}

\* (event.x, event.y) of the mouse events
Points == {<<10, 20>>, <<40, 5>>}

Min(a, b) == IF a < b THEN a ELSE b

Max(a, b) == IF a < b THEN b ELSE a

\* the rectangle (x0, y0, w, h) stored by on_mouse_up
Rectangle(x, y, event_x, event_y) ==
    <<Min(x, event_x), Min(y, event_y),
      Max(x, event_x) - Min(x, event_x), Max(y, event_y) - Min(y, event_y)>>

\* the canvas after display_frame_for_roi
DisplayedItems(r1, r2) ==
    {"image"} \cup (IF r1 # None THEN {"roi1_rect"} ELSE {})
              \cup (IF r2 # None THEN {"roi2_rect"} ELSE {})

\* a slip: in step 3 the button clears the last ROI and the step stays 3
ClearedByRedrawLast(step) ==
    IF step = 1 THEN 1 ELSE IF step \in {2, 3} THEN 2 ELSE 0

\* the ROI that redraw_current_roi clears in a step: 1, 2, or 0 for none
ClearedByRedraw(step) ==
    IF step = 1 THEN 1 ELSE IF step = 2 THEN 2 ELSE 0

\* update_ui_state for a step and a drawn rectangle
update_ui_state(step, drawn) ==
    /\ btn_select_video' = "normal"
    /\ btn_confirm_roi' =
           IF step \in {1, 2} /\ drawn # None THEN "normal" ELSE "disabled"
    /\ btn_redraw_roi' = IF step \in {1, 2, 3} THEN "normal" ELSE "disabled"
    /\ btn_process' = IF step = 3 THEN "normal" ELSE "disabled"

buttons == <<btn_select_video, btn_confirm_roi, btn_redraw_roi, btn_process>>

select_video ==
    /\ handler' = "select_video"
    /\ through_widgets' = (through_widgets /\ btn_select_video = "normal")
    /\ \E path \in Paths, outcome \in VideoOutcomes :
         \/ /\ path = <<>>
            /\ UNCHANGED <<video_path, frame_for_roi, canvas, message,
                           current_roi_step, buttons>>
         \/ /\ path # <<>>
            /\ outcome = "raised"
            /\ video_path' = path
            /\ UNCHANGED <<frame_for_roi, canvas, message, current_roi_step,
                           buttons>>
         \/ /\ path # <<>>
            /\ outcome \in {"unopened", "unread"}
            /\ video_path' = path
            /\ message' = IF outcome = "unopened" THEN "open_error"
                          ELSE "read_error"
            /\ current_roi_step' = 1
            /\ update_ui_state(1, current_roi_drawing)
            /\ UNCHANGED <<frame_for_roi, canvas>>
         \/ /\ path # <<>>
            /\ outcome = "shown"
            /\ video_path' = path
            /\ frame_for_roi' = TRUE
            /\ canvas' = DisplayedItems(roi1, roi2)
            /\ current_roi_step' = 1
            /\ update_ui_state(1, current_roi_drawing)
            /\ UNCHANGED message
    /\ UNCHANGED <<roi1, roi2, current_roi_drawing, drawing, ix, iy, reader>>

on_mouse_down ==
    /\ handler' = "on_mouse_down"
    /\ through_widgets' = (through_widgets /\ frame_for_roi)
    /\ \E event \in Points :
         IF current_roi_step \notin {1, 2}
         THEN UNCHANGED <<drawing, ix, iy, canvas>>
         ELSE /\ drawing' = TRUE
              /\ ix' = event[1]
              /\ iy' = event[2]
              /\ canvas' = canvas \ {"current_rect"}
    /\ UNCHANGED <<video_path, roi1, roi2, current_roi_drawing,
                   current_roi_step, frame_for_roi, buttons, message, reader>>

on_mouse_move ==
    /\ handler' = "on_mouse_move"
    /\ through_widgets' = (through_widgets /\ frame_for_roi)
    /\ IF ~drawing
       THEN UNCHANGED canvas
       ELSE canvas' = canvas \cup {"current_rect"}
    /\ UNCHANGED <<video_path, roi1, roi2, current_roi_drawing,
                   current_roi_step, frame_for_roi, drawing, ix, iy, buttons,
                   message, reader>>

on_mouse_up ==
    /\ handler' = "on_mouse_up"
    /\ through_widgets' = (through_widgets /\ frame_for_roi)
    /\ \E event \in Points :
         IF ~drawing
         THEN UNCHANGED <<drawing, current_roi_drawing, buttons>>
         ELSE /\ drawing' = FALSE
              /\ current_roi_drawing' = Rectangle(ix, iy, event[1], event[2])
              /\ update_ui_state(current_roi_step,
                                 Rectangle(ix, iy, event[1], event[2]))
    /\ UNCHANGED <<video_path, roi1, roi2, current_roi_step, frame_for_roi,
                   ix, iy, canvas, message, reader>>

confirm_current_roi ==
    /\ handler' = "confirm_current_roi"
    /\ through_widgets' = (through_widgets /\ btn_confirm_roi = "normal")
    /\ \/ /\ current_roi_drawing = None
          /\ message' = "draw_first"
          /\ UNCHANGED <<roi1, roi2, current_roi_drawing, current_roi_step,
                         canvas, buttons>>
       \/ /\ current_roi_drawing # None
          /\ current_roi_step = 1
          /\ roi1' = current_roi_drawing
          /\ canvas' = (canvas \ {"current_rect"}) \cup {"roi1_rect"}
          /\ current_roi_step' = 2
          /\ current_roi_drawing' = None
          /\ update_ui_state(2, None)
          /\ UNCHANGED <<roi2, message>>
       \/ /\ current_roi_drawing # None
          /\ current_roi_step = 2
          /\ roi2' = current_roi_drawing
          /\ canvas' = (canvas \ {"current_rect"}) \cup {"roi2_rect"}
          /\ current_roi_step' = 3
          /\ current_roi_drawing' = None
          /\ update_ui_state(3, None)
          /\ UNCHANGED <<roi1, message>>
       \/ /\ current_roi_drawing # None
          /\ current_roi_step \notin {1, 2}
          /\ update_ui_state(current_roi_step, current_roi_drawing)
          /\ UNCHANGED <<roi1, roi2, current_roi_drawing, current_roi_step,
                         canvas, message>>
    /\ UNCHANGED <<video_path, frame_for_roi, drawing, ix, iy, reader>>

redraw_current_roi ==
    /\ handler' = "redraw_current_roi"
    /\ through_widgets' = (through_widgets /\ btn_redraw_roi = "normal")
    /\ \E cleared \in {ClearedByRedraw(current_roi_step)} :
         /\ canvas' = canvas \ ({"current_rect"}
                \cup (IF cleared = 1 THEN {"roi1_rect"} ELSE {})
                \cup (IF cleared = 2 THEN {"roi2_rect"} ELSE {}))
         /\ roi1' = IF cleared = 1 THEN None ELSE roi1
         /\ roi2' = IF cleared = 2 THEN None ELSE roi2
    /\ current_roi_drawing' = None
    /\ update_ui_state(current_roi_step, None)
    /\ UNCHANGED <<video_path, current_roi_step, frame_for_roi, drawing, ix,
                   iy, message, reader>>

process_video ==
    /\ handler' = "process_video"
    /\ through_widgets' = (through_widgets /\ btn_process = "normal")
    /\ \E outcome \in ProcessOutcomes :
         message' =
             IF video_path = None THEN "select_first"
             ELSE IF roi1 = None \/ roi2 = None THEN "both_rois"
             ELSE IF outcome = "unopened" THEN "open_error"
             ELSE IF outcome = "complete" THEN "complete"
             ELSE message
    /\ UNCHANGED <<video_path, roi1, roi2, current_roi_drawing,
                   current_roi_step, frame_for_roi, drawing, ix, iy, buttons,
                   canvas, reader>>

\* the selector is started on its own: process_ocr is not running
SelectorInit ==
    /\ Init
    /\ config = <<FALSE, FALSE, 0 - 1, 0, 0, NoFrames>>

SelectorNext ==
    \/ select_video
    \/ on_mouse_down
    \/ on_mouse_move
    \/ on_mouse_up
    \/ confirm_current_roi
    \/ redraw_current_roi
    \/ process_video

SelectorSpec == SelectorInit /\ [][SelectorNext]_vars

(***************************************************************************)
(* Vocabulary of the properties.                                           *)
(***************************************************************************)
\* n thousandths of a trillion
Thousandths(n) == n * (UnitsPerTrillion \div 1000)

\* the last element of a non-empty sequence
Last(seq) == seq[Len(seq)]

\* this step is one loop iteration
FrameStep == Len(ws_frames') = Len(ws_frames) + 1

\* this step is an iteration on a frame with both images
PresentStep == FrameStep /\ trillion_img_path' /\ hundred_million_img_path'

\* this step is an iteration on a frame lacking an image
MissingStep == FrameStep /\ ~(trillion_img_path' /\ hundred_million_img_path')

\* the raw value read in this step
RawRead == RawDamage(trillion_val', hundred_million_val')

\* the total of the row emitted before this step, 0 when there is none
PreviousTotal == IF rows = <<>> THEN 0 ELSE Last(rows).total

(***************************************************************************)
(* C1  Monotonicity: in every run, each emitted row's total is at least    *)
(* the total of the row before it, and overall_accumulated_damage never    *)
(* decreases from one frame to the next.                                   *)
(***************************************************************************)
MonotoneTotals ==
    [][ /\ overall_accumulated_damage' >= overall_accumulated_damage
        /\ \A i \in 2..Len(rows') : rows'[i].total >= rows'[i - 1].total
        /\ FrameStep => Last(rows').total >= PreviousTotal ]_vars

\* a reading below the running total was just rejected after a reset
MonotoneWitness ==
    /\ branch = "rejected"
    /\ reset_offset > 0
    /\ Len(rows) = 2
    /\ RawDamage(trillion_val, hundred_million_val) + reset_offset
           < overall_accumulated_damage
    /\ rows[2].total = rows[1].total

(***************************************************************************)
(* C2  Reset detection: on a present frame a reset is declared exactly     *)
(* when phase_baseline > 0, raw < phase_baseline * RESET_DROP_FACTOR and   *)
(* raw < SMALL_ABSOLUTE_RESET_THRESHOLD; a raw at or above the absolute    *)
(* threshold never resets; a declared reset sets reset_offset to the       *)
(* overall_accumulated_damage of before the frame.                         *)
(***************************************************************************)
ResetExactlyWhen ==
    [][ PresentStep =>
          /\ is_reset_detected' <=>
               /\ last_successful_ocr_value_in_current_phase > 0
               /\ RawRead * RESET_DROP_FACTOR.den
                      < last_successful_ocr_value_in_current_phase
                            * RESET_DROP_FACTOR.num
               /\ RawRead < SMALL_ABSOLUTE_RESET_THRESHOLD
          /\ RawRead >= SMALL_ABSOLUTE_RESET_THRESHOLD => ~is_reset_detected'
          /\ is_reset_detected' =>
               reset_offset' = overall_accumulated_damage ]_vars

\* a zero was read while the phase had a baseline: the reset was declared
ResetWitness ==
    /\ is_reset_detected
    /\ trillion_text = <<"0">>
    /\ hundred_million_text = <<"0">>
    /\ reset_offset = overall_accumulated_damage
    /\ reset_offset > 0

(***************************************************************************)
(* C3  Reset scenario, as stated: after present frames with raws 5.0,      *)
(* 5.2, 0.0001, 0.3 a reset has been declared at 0.0001, reset_offset is   *)
(* the total logged at 5.2 and overall_accumulated_damage is               *)
(* reset_offset + 0.3 = 5.5.                                               *)
(***************************************************************************)
DropRunResets ==
    followed.drop = Len(DropRun) =>
        /\ reset_offset = Thousandths(5200)
        /\ overall_accumulated_damage = reset_offset + Thousandths(300)
        /\ overall_accumulated_damage = Thousandths(5500)

(***************************************************************************)
(* C3  Reset scenario, amended: with the default thresholds the raws 5.0,  *)
(* 5.2, 0.0001, 0.3 declare no reset (0.0001 is not below 0.00001), the    *)
(* last two frames are rejected and the run ends with reset_offset 0 and   *)
(* overall_accumulated_damage 5.2; the raws 5.0, 5.2, 0, 0.3 declare the   *)
(* reset at the zero reading and end with reset_offset 5.2, the total      *)
(* logged at raw 5.2, and overall_accumulated_damage reset_offset + 0.3,   *)
(* that is 5.5.                                                            *)
(***************************************************************************)
DropRunKeepsTotal ==
    /\ followed.drop >= 3 =>
         /\ ~is_reset_detected
         /\ branch = "rejected"
         /\ reset_offset = 0
         /\ overall_accumulated_damage = Thousandths(5200)
         /\ Last(rows).total = Thousandths(5200)
    /\ followed.zero = 2 => Last(rows).total = Thousandths(5200)
    /\ followed.zero = 3 =>
         /\ is_reset_detected
         /\ reset_offset = Thousandths(5200)
         /\ overall_accumulated_damage = Thousandths(5200)
    /\ followed.zero = Len(ZeroRun) =>
         /\ ~is_reset_detected
         /\ branch = "accepted"
         /\ reset_offset = Thousandths(5200)
         /\ overall_accumulated_damage = reset_offset + Thousandths(300)
         /\ Last(rows).total = Thousandths(5500)

\* the four frames 5.0, 5.2, 0.0001, 0.3 have been processed
DropRunWitness ==
    /\ followed.drop = Len(DropRun)
    /\ trillion_val = 0
    /\ hundred_million_val = 3000
    /\ Len(ws_frames) = Len(DropRun)

(***************************************************************************)
(* C4  OCR-noise rejection: a present frame with no reset declared and     *)
(* raw + reset_offset below overall_accumulated_damage emits the previous  *)
(* row's total and leaves overall_accumulated_damage, phase_baseline and   *)
(* reset_offset unchanged; a present frame whose raw + reset_offset        *)
(* exceeds the total is accepted and raises the total to it; the raws 3.0, *)
(* 3.5, 0.2, 3.6 emit the totals 3.0, 3.5, 3.5, 3.6.                       *)
(***************************************************************************)
NoiseRejected ==
    [][ /\ ( /\ PresentStep
             /\ ~is_reset_detected'
             /\ RawRead + reset_offset < overall_accumulated_damage )
            => /\ rows # <<>>
               /\ Last(rows').total = Last(rows).total
               /\ UNCHANGED <<overall_accumulated_damage,
                              last_successful_ocr_value_in_current_phase,
                              reset_offset>>
        /\ ( /\ PresentStep
             /\ RawRead + reset_offset > overall_accumulated_damage )
            => /\ branch' = "accepted"
               /\ overall_accumulated_damage' = RawRead + reset_offset
               /\ Last(rows').total = RawRead + reset_offset
               /\ Last(rows').total > PreviousTotal
        /\ followed'.dip = 1 => Last(rows').total = Thousandths(3000)
        /\ followed'.dip = 2 => Last(rows').total = Thousandths(3500)
        /\ followed'.dip = 3 => /\ Last(rows').total = Thousandths(3500)
                                /\ branch' = "rejected"
        /\ followed'.dip = 4 => Last(rows').total = Thousandths(3600) ]_vars

\* the dip 0.2 after 3.0, 3.5 has just been rejected
NoiseWitness ==
    /\ followed.dip = 3
    /\ branch = "rejected"
    /\ hundred_million_val = 2000
    /\ rows[2].total = rows[1].total

(***************************************************************************)
(* C5  Missing-frame passthrough: a missing frame, anywhere in the run     *)
(* and also as the first row, emits overall_accumulated_damage as its      *)
(* total, a delta of 0 and the last logged digit pair, and leaves          *)
(* overall_accumulated_damage, phase_baseline, reset_offset and            *)
(* last_logged_components unchanged.                                       *)
(***************************************************************************)
MissingPassthrough ==
    [][ MissingStep =>
          /\ Last(rows').total = overall_accumulated_damage
          /\ Last(rows').total = PreviousTotal
          /\ Last(rows').change = 0
          /\ Last(rows').trillion = last_valid_jo
          /\ Last(rows').hundred_million = last_valid_uk
          /\ rows # <<>> =>
               /\ Last(rows').trillion = Last(rows).trillion
               /\ Last(rows').hundred_million = Last(rows).hundred_million
          /\ UNCHANGED <<overall_accumulated_damage,
                         last_successful_ocr_value_in_current_phase,
                         reset_offset, last_valid_jo, last_valid_uk>> ]_vars

\* a frame with only the trillion image followed a row with a nonzero total
MissingWitness ==
    /\ branch = "missing"
    /\ trillion_img_path /\ ~hundred_million_img_path
    /\ Len(rows) = 2
    /\ rows[1].total > 0
    /\ rows[2].total = rows[1].total
    /\ rows[2].change = 0

(***************************************************************************)
(* C6  Delta consistency: every row after the first has                    *)
(* delta = total - total of the row before it, and the clamping branch of  *)
(* the damage-change computation is never taken.                           *)
(***************************************************************************)
DeltaConsistent ==
    /\ \A i \in 2..Len(rows) :
         rows[i].change = rows[i].total - rows[i - 1].total
    /\ change_branch # "clamp"
    /\ rows # <<>> => previous_total_damage_for_diff = Last(rows).total

\* a row raised a nonzero total
DeltaWitness ==
    /\ Len(rows) = 2
    /\ rows[1].total > 0
    /\ rows[2].total > rows[1].total
    /\ rows[2].change = rows[2].total - rows[1].total
    /\ change_branch = "diff"

(***************************************************************************)
(* C7  Concrete scenario, as stated: with start_frame 0, frame_interval    *)
(* 24 and the digit pairs (0,0), (1,2000), (2,1500), (0,5), (3,1000) read  *)
(* at frames 0, 24, 48, 72, 96, the totals are 0, 1.2, 2.15, 2.15, 3.25    *)
(* and no reset is declared at frame 72.                                   *)
(***************************************************************************)
FiveRunAsStated ==
    (start_frame = 0 /\ frame_interval = DefaultFrameInterval) =>
        /\ followed.five = 1 => Last(rows).total = 0
        /\ followed.five = 2 => Last(rows).total = Thousandths(1200)
        /\ followed.five = 3 => Last(rows).total = Thousandths(2150)
        /\ followed.five = 4 => /\ Last(rows).total = Thousandths(2150)
                                /\ ~is_reset_detected
        /\ followed.five = 5 => Last(rows).total = Thousandths(3250)

(***************************************************************************)
(* C7  Concrete scenario, amended: with start_frame 0, frame_interval 24   *)
(* and the digit pairs (0,0), (1,2000), (2,1500), (0,5), (3,1000) read at  *)
(* frames 0, 24, 48, 72, 96, the totals are 0, 1.2, 2.15, 2.15, 3.1 (the   *)
(* last raw is 3 + 1000/10000), and no reset is declared at frame 72,      *)
(* whose reading is rejected.                                              *)
(***************************************************************************)
FiveRunTotals ==
    (start_frame = 0 /\ frame_interval = DefaultFrameInterval) =>
        /\ followed.five \in 1..Len(FiveRun) =>
             /\ Len(ws_frames) = followed.five
             /\ Last(rows).frame = (followed.five - 1) * DefaultFrameInterval
             /\ reset_offset = 0
        /\ followed.five = 1 => Last(rows).total = 0
        /\ followed.five = 2 => Last(rows).total = Thousandths(1200)
        /\ followed.five = 3 => Last(rows).total = Thousandths(2150)
        /\ followed.five = 4 => /\ Last(rows).total = Thousandths(2150)
                                /\ Last(rows).frame = 72
                                /\ ~is_reset_detected
                                /\ branch = "rejected"
        /\ followed.five = 5 => /\ Last(rows).total = Thousandths(3100)
                                /\ Last(rows).frame = 96

\* the five frames have been processed
FiveRunWitness ==
    /\ start_frame = 0
    /\ frame_interval = DefaultFrameInterval
    /\ followed.five = Len(FiveRun)
    /\ ws_frames = <<0, 24, 48, 72, 96>>
    /\ trillion_val = 3
    /\ hundred_million_val = 1000

(***************************************************************************)
(* C8  reset_offset changes only on a frame where a reset is declared, at  *)
(* every such frame its new value is strictly greater than its old value,  *)
(* and on every other frame it is unchanged.                               *)
(***************************************************************************)
OffsetOnlyAtReset ==
    [][ /\ reset_offset' # reset_offset => (FrameStep /\ is_reset_detected')
        /\ (FrameStep /\ is_reset_detected') => reset_offset' > reset_offset
        /\ (FrameStep /\ ~is_reset_detected') =>
               reset_offset' = reset_offset ]_vars

\* a reset was declared on the third frame or later
OffsetWitness ==
    /\ is_reset_detected
    /\ Len(ws_frames) >= 3
    /\ Len(rows) = 2
    /\ reset_offset = rows[1].total
    /\ reset_offset > 0

(***************************************************************************)
(* C9  OCR failure, as stated: a present frame whose two readings are      *)
(* both 0 emits the previous total and leaves overall_accumulated_damage,  *)
(* reset_offset and phase_baseline unchanged, whatever the state before.   *)
(***************************************************************************)
ZeroReadingAbsorbed ==
    [][ (PresentStep /\ trillion_val' = 0 /\ hundred_million_val' = 0) =>
          /\ Last(rows').total = PreviousTotal
          /\ UNCHANGED <<overall_accumulated_damage, reset_offset,
                         last_successful_ocr_value_in_current_phase>> ]_vars

(***************************************************************************)
(* C9  OCR failure, amended: a present frame whose two readings are both   *)
(* 0 emits the previous total and leaves overall_accumulated_damage        *)
(* unchanged; reset_offset and phase_baseline are unchanged when           *)
(* phase_baseline is 0 before the frame; when phase_baseline > 0 the       *)
(* frame is declared a reset, reset_offset becomes                         *)
(* overall_accumulated_damage and phase_baseline becomes 0.                *)
(***************************************************************************)
ZeroReadingKeepsTotal ==
    [][ (PresentStep /\ trillion_val' = 0 /\ hundred_million_val' = 0) =>
          /\ Last(rows').total = PreviousTotal
          /\ Last(rows').total = overall_accumulated_damage
          /\ UNCHANGED overall_accumulated_damage
          /\ last_successful_ocr_value_in_current_phase = 0 =>
               /\ ~is_reset_detected'
               /\ UNCHANGED <<reset_offset,
                              last_successful_ocr_value_in_current_phase>>
          /\ last_successful_ocr_value_in_current_phase > 0 =>
               /\ is_reset_detected'
               /\ reset_offset' = overall_accumulated_damage
               /\ last_successful_ocr_value_in_current_phase' = 0 ]_vars

\* both recognitions returned no digit while the phase had a baseline
ZeroReadingWitness ==
    /\ trillion_img_path /\ hundred_million_img_path
    /\ trillion_text = <<>>
    /\ hundred_million_text = <<>>
    /\ is_reset_detected
    /\ reset_offset > 0
    /\ last_successful_ocr_value_in_current_phase = 0

(***************************************************************************)
(* C10  Output rows: for a validated configuration the rows are those of   *)
(* the frames start_frame + k * frame_interval (k = 0, 1, ...) up to the   *)
(* maximum frame number of the two image sets, one row each and no other,  *)
(* in strictly increasing frame order; no row is emitted when start_frame  *)
(* exceeds that maximum.                                                   *)
(***************************************************************************)
RowsCoverFrames ==
    /\ \A i \in 1..Len(ws_frames) :
         /\ ws_frames[i] = start_frame + (i - 1) * frame_interval
         /\ ws_frames[i] <= max_frame_num
         /\ i > 1 => ws_frames[i] > ws_frames[i - 1]
    /\ \A i \in 1..Len(rows) :
         rows[i].frame = ws_frames[Len(ws_frames) - Len(rows) + i]
    /\ pc = "done" =>
         /\ \A k \in 0..max_frame_num :
              start_frame + k * frame_interval <= max_frame_num
                  => /\ k + 1 <= Len(ws_frames)
                     /\ ws_frames[k + 1] = start_frame + k * frame_interval
         /\ start_frame > max_frame_num => ws_frames = <<>>

\* a finished run whose maximum frame number is not itself sampled
RowsWitness ==
    /\ pc = "done"
    /\ start_frame = 0
    /\ frame_interval = DefaultFrameInterval
    /\ max_frame_num = 2 * DefaultFrameInterval + 2
    /\ ws_frames = <<0, 24, 48>>

(***************************************************************************)
(* C11  Input validation: when start_frame < 0, frame_interval <= 0 or     *)
(* fps <= 0, when an entry is not a number, or when neither folder holds   *)
(* a frame image, process_ocr returns on the error before any frame is     *)
(* processed: it never enters the loop, no row is emitted and every        *)
(* tracking variable keeps the value it had at entry.                      *)
(***************************************************************************)
InvalidInput ==
    \/ ~entries_numeric
    \/ start_frame < 0 \/ frame_interval <= 0 \/ fps <= 0
    \/ max_frame_num = NoFrames

InvalidInputStops ==
    InvalidInput =>
        /\ pc \in {"start", "error"}
        /\ ws_frames = <<>>
        /\ rows = <<>>
        /\ current_frame_to_process = 0
        /\ overall_accumulated_damage = 0
        /\ last_successful_ocr_value_in_current_phase = 0
        /\ reset_offset = 0
        /\ last_valid_jo = 0 /\ last_valid_uk = 0
        /\ previous_total_damage_for_diff = 0
        /\ branch = "none" /\ change_branch = "none"
        /\ ~is_reset_detected

\* the run ended on the error of a zero interval, all else being valid
InvalidInputWitness ==
    /\ pc = "error"
    /\ folders_ok /\ entries_numeric
    /\ start_frame = 0 /\ frame_interval = 0 /\ fps > 0
    /\ max_frame_num = MaxIntervals * DefaultFrameInterval
    /\ ws_frames = <<>>

(***************************************************************************)
(* C12  Termination: for every validated configuration and finite set of   *)
(* frame images the frame loop reaches its end after finitely many         *)
(* frames, and the processed frame number strictly increases at every      *)
(* iteration.                                                              *)
(***************************************************************************)
LoopTerminates ==
    /\ [][ FrameStep =>
             /\ current_frame_to_process' > current_frame_to_process
             /\ Last(ws_frames') = current_frame_to_process
             /\ Len(ws_frames') <= max_frame_num - start_frame + 1 ]_vars
    /\ (pc = "loop") ~> (pc = "done")

\* the longest loop of the model has ended
TerminatedWitness ==
    /\ pc = "done"
    /\ Len(ws_frames) = MaxIntervals + 1
    /\ current_frame_to_process > max_frame_num

(***************************************************************************)
(* C14  phase_baseline is the running peak of the phase: after every       *)
(* frame it equals the highest raw value over the present frames from the  *)
(* most recent reset frame (inclusive), or from the start of the run, to   *)
(* the current frame, and 0 when there is no such frame; a rejected        *)
(* reading never changes it and it only decreases at a reset.              *)
(***************************************************************************)
BaselineIsPeak ==
    [][ FrameStep =>
          /\ last_successful_ocr_value_in_current_phase' = phase_peak'
          /\ branch' = "rejected" =>
                 last_successful_ocr_value_in_current_phase'
                     = last_successful_ocr_value_in_current_phase
          /\ last_successful_ocr_value_in_current_phase'
                 < last_successful_ocr_value_in_current_phase
                 => is_reset_detected' ]_vars

\* after a reset the new phase has a peak that a lower reading did not change
PeakWitness ==
    /\ branch = "rejected"
    /\ reset_offset > 0
    /\ phase_peak > 0
    /\ last_successful_ocr_value_in_current_phase = phase_peak
    /\ 0 < RawDamage(trillion_val, hundred_million_val)
    /\ RawDamage(trillion_val, hundred_million_val) < phase_peak

(***************************************************************************)
(* C15  A frame on which a reset is declared always takes the accept       *)
(* branch: its emitted total is the previous total plus the frame's raw    *)
(* value, its logged digit pair is the frame's own reading, and            *)
(* phase_baseline after the frame equals the frame's raw value.            *)
(***************************************************************************)
ResetFrameAccepted ==
    [][ (PresentStep /\ is_reset_detected') =>
          /\ branch' = "accepted"
          /\ Last(rows').total = PreviousTotal + RawRead
          /\ overall_accumulated_damage'
                 = overall_accumulated_damage + RawRead
          /\ Last(rows').trillion = trillion_val'
          /\ Last(rows').hundred_million = hundred_million_val'
          /\ last_valid_jo' = trillion_val'
          /\ last_valid_uk' = hundred_million_val'
          /\ last_successful_ocr_value_in_current_phase' = RawRead ]_vars

\* a reset frame was accepted and logged its own pair in place of (5, 2000)
ResetFrameWitness ==
    /\ is_reset_detected
    /\ branch = "accepted"
    /\ Len(rows) = 2
    /\ rows[1].trillion = 5 /\ rows[1].hundred_million = 2000
    /\ rows[2].trillion = 0 /\ rows[2].hundred_million = 0
    /\ rows[2].total = rows[1].total

(***************************************************************************)
(* C16  Logged digit pair: on a present frame with raw + reset_offset >=   *)
(* overall_accumulated_damage (reset_offset taken before or after the      *)
(* frame's reset check) the row's pair is the frame's own reading,         *)
(* overall_accumulated_damage becomes raw + reset_offset and the last      *)
(* logged pair becomes that reading; on a rejected frame the row's pair    *)
(* is the pair of the previously emitted row, (0,0) if there is none, and  *)
(* the last logged pair is unchanged.                                      *)
(***************************************************************************)
PreviousPair ==
    IF rows = <<>> THEN <<0, 0>>
    ELSE <<Last(rows).trillion, Last(rows).hundred_million>>

LoggedPair ==
    [][ PresentStep =>
          /\ (\/ RawRead + reset_offset >= overall_accumulated_damage
              \/ RawRead + reset_offset' >= overall_accumulated_damage)
                 => /\ branch' = "accepted"
                    /\ Last(rows').trillion = trillion_val'
                    /\ Last(rows').hundred_million = hundred_million_val'
                    /\ overall_accumulated_damage' = RawRead + reset_offset'
                    /\ last_valid_jo' = trillion_val'
                    /\ last_valid_uk' = hundred_million_val'
          /\ branch' = "rejected"
                 => /\ RawRead + reset_offset' < overall_accumulated_damage
                    /\ <<Last(rows').trillion, Last(rows').hundred_million>>
                           = PreviousPair
                    /\ last_valid_jo' = last_valid_jo
                    /\ last_valid_uk' = last_valid_uk ]_vars

\* a reading equal to the running total was accepted after a rejected one
LoggedPairWitness ==
    /\ branch = "accepted"
    /\ ~is_reset_detected
    /\ Len(ws_frames) >= 3
    /\ Len(rows) = 2
    /\ rows[2].total = rows[1].total
    /\ rows[2].total > 0
    /\ rows[2].trillion = trillion_val
    /\ rows[2].trillion = rows[1].trillion
    /\ rows[2].hundred_million = rows[1].hundred_million
    /\ rows[2].change = 0

(***************************************************************************)
(* C17  First delta: on the first row of the run whose total is nonzero    *)
(* the delta equals that total; on every row before it, all with total 0,  *)
(* the delta is 0.                                                         *)
(***************************************************************************)
FirstDelta ==
    [][ FrameStep =>
          /\ Last(rows').total = 0 => Last(rows').change = 0
          /\ (Last(rows').total > 0 /\ PreviousTotal = 0
                 /\ overall_accumulated_damage = 0)
                 => /\ Last(rows').change = Last(rows').total
                    /\ change_branch' = "first"
          /\ PreviousTotal > 0 => change_branch' # "first" ]_vars

\* the first nonzero total came on the third frame, after rows of total 0
FirstDeltaWitness ==
    /\ Len(ws_frames) = 3
    /\ Len(rows) = 2
    /\ rows[1].total = 0 /\ rows[1].change = 0
    /\ overall_accumulated_damage > 0
    /\ rows[2].total = overall_accumulated_damage
    /\ rows[2].change = rows[2].total
    /\ change_branch = "first"

(***************************************************************************)
(* C18  POST-RESET is exactly phase_baseline = 0: no reset is declared on  *)
(* a frame that starts with phase_baseline = 0, so between two frames on   *)
(* which a reset is declared there is an accepted present frame with       *)
(* raw > 0, and two resets never occur on consecutive sampled frames.      *)
(***************************************************************************)
ResetsApart ==
    [][ FrameStep =>
          /\ last_successful_ocr_value_in_current_phase = 0
                 => ~is_reset_detected'
          /\ is_reset_detected' => phase_gain
          /\ is_reset_detected => ~is_reset_detected'
          /\ is_reset_detected'
                 => last_successful_ocr_value_in_current_phase' = 0
          /\ phase_gain' <=>
                 last_successful_ocr_value_in_current_phase' > 0 ]_vars

\* a second reset, one frame after a gain that followed the first reset
ResetsApartWitness ==
    /\ is_reset_detected
    /\ Len(ws_frames) >= 4
    /\ Len(rows) = 2
    /\ reset_offset = rows[1].total
    /\ rows[1].change > 0
    /\ rows[1].total
           > RawDamage(rows[1].trillion, rows[1].hundred_million)

(***************************************************************************)
(* C19  A sampled frame is processed as a reading only when both the       *)
(* trillion image and the hundred-million image exist for its number;      *)
(* when no image exists, and also when exactly one of the two exists, the  *)
(* frame is handled as a missing frame: no OCR, no reset check, state      *)
(* unchanged.                                                              *)
(***************************************************************************)
ReadingNeedsBothImages ==
    [][ FrameStep =>
          /\ branch' \in {"accepted", "rejected"}
                 => (trillion_img_path' /\ hundred_million_img_path')
          /\ ~(trillion_img_path' /\ hundred_million_img_path')
                 => /\ branch' = "missing"
                    /\ trillion_text' = <<>>
                    /\ hundred_million_text' = <<>>
                    /\ ~is_reset_detected'
                    /\ tracking' = tracking
                    /\ Last(rows').total = overall_accumulated_damage ]_vars

\* a frame with only the hundred-million image came after a nonzero total
OneImageWitness ==
    /\ branch = "missing"
    /\ ~trillion_img_path /\ hundred_million_img_path
    /\ Len(rows) = 2
    /\ rows[1].total > 0
    /\ rows[2].total = rows[1].total
    /\ rows[2].trillion = rows[1].trillion

(***************************************************************************)
(* C20  With the default thresholds and integer digit readings a reset is  *)
(* declared only on a present frame whose two readings are both exactly 0  *)
(* while phase_baseline > 0: a reading with a nonzero digit in either      *)
(* unit never declares a reset, and every all-zero reading arriving while  *)
(* phase_baseline > 0 declares one.                                        *)
(***************************************************************************)
ResetOnlyOnZeros ==
    [][ FrameStep =>
          /\ is_reset_detected' =>
                 /\ trillion_img_path' /\ hundred_million_img_path'
                 /\ trillion_val' = 0 /\ hundred_million_val' = 0
                 /\ last_successful_ocr_value_in_current_phase > 0
          /\ (trillion_val' > 0 \/ hundred_million_val' > 0)
                 => /\ ~is_reset_detected'
                    /\ RawRead >= UnitsPerTrillion
                                      \div HundredMillionPerTrillion
          /\ (/\ PresentStep
              /\ trillion_val' = 0 /\ hundred_million_val' = 0
              /\ last_successful_ocr_value_in_current_phase > 0)
                 => is_reset_detected' ]_vars

\* a reading of (0, 1) far below 1% of the baseline declared no reset
SmallReadingWitness ==
    /\ ~is_reset_detected
    /\ trillion_img_path /\ hundred_million_img_path
    /\ trillion_val = 0 /\ hundred_million_val = 1
    /\ branch = "rejected"
    /\ reset_offset > 0
    /\ last_successful_ocr_value_in_current_phase >= Thousandths(100)

(***************************************************************************)
(* C21  State invariant: after every frame of every run, in exact          *)
(* arithmetic, overall_accumulated_damage = reset_offset + phase_baseline, *)
(* and therefore overall_accumulated_damage >= reset_offset >= 0.          *)
(***************************************************************************)
OverallIsOffsetPlusBaseline ==
    /\ overall_accumulated_damage
           = reset_offset + last_successful_ocr_value_in_current_phase
    /\ overall_accumulated_damage >= reset_offset
    /\ reset_offset >= 0
    /\ last_successful_ocr_value_in_current_phase >= 0

\* a second phase has a baseline of its own above the offset of the first
OffsetPlusBaselineWitness ==
    /\ pc = "loop"
    /\ reset_offset > 0
    /\ last_successful_ocr_value_in_current_phase > 0
    /\ branch = "accepted"
    /\ overall_accumulated_damage > reset_offset

(***************************************************************************)
(* C22  Row self-consistency: in every emitted row (accepted, rejected,    *)
(* reset or missing frame) total = reset_offset + trillion +               *)
(* hundred_million / 10000, the pair being the one logged in that row and  *)
(* reset_offset its value after the frame.                                 *)
(***************************************************************************)
RowSelfConsistent ==
    rows # <<>> =>
        Last(rows).total
            = reset_offset
              + Last(rows).trillion * UnitsPerTrillion
              + Last(rows).hundred_million
                    * (UnitsPerTrillion \div HundredMillionPerTrillion)

\* a missing frame after a rejected one, in a second phase, repeats the pair
RowConsistentWitness ==
    /\ branch = "missing"
    /\ reset_offset > 0
    /\ Len(rows) = 2
    /\ rows[2].hundred_million > 0
    /\ rows[2].total > reset_offset
    /\ rows[2].total = rows[1].total
    /\ rows[2].hundred_million = rows[1].hundred_million

(***************************************************************************)
(* C23  Reference result: the total of each row is the sum, over the       *)
(* phases up to that row (a phase being the frames from one reset frame    *)
(* up to the frame before the next), of the highest raw value read in the  *)
(* phase; in a run where no reset is declared each row's total is the      *)
(* highest raw value over the present frames up to that row.               *)
(***************************************************************************)
TotalIsSumOfPeaks ==
    rows # <<>> =>
        /\ Last(rows).total = closed_peaks + phase_peak
        /\ reset_offset = 0 => Last(rows).total = phase_peak

\* a second reset closed a second phase: the total is the sum of two peaks
SumOfPeaksWitness ==
    /\ Len(ws_frames) = MaxIntervals + 1
    /\ is_reset_detected
    /\ closed_peaks > phase_peak
    /\ Len(rows) = 2
    /\ rows[1].total > RawDamage(rows[1].trillion, rows[1].hundred_million)
    /\ rows[1].change > 0
    /\ rows[2].total = closed_peaks

(***************************************************************************)
(* C24  ROI selector, step 3, as stated: when current_roi_step is 3 the    *)
(* 'Redraw Last ROI' button allows the last ROI to be redrawn: after       *)
(* pressing it a mouse press on the canvas starts a new rectangle (which   *)
(* can then replace roi2).  The code does not do this: on_mouse_down       *)
(* returns at once in step 3.                                              *)
(***************************************************************************)
RedrawLastAllowsDrawing ==
    [][ (/\ handler = "redraw_current_roi"
         /\ current_roi_step = 3
         /\ btn_redraw_roi = "normal"
         /\ handler' = "on_mouse_down"
         /\ through_widgets')
            => drawing' ]_vars

\* C24, what the code does: while the step stays 3 no callback changes an
\* ROI or starts a drawing; the button only drops the drawn rectangle
ReadyKeepsRois ==
    [][ (current_roi_step = 3 /\ current_roi_step' = 3)
            => /\ roi1' = roi1
               /\ roi2' = roi2
               /\ drawing' => drawing
               /\ handler' = "redraw_current_roi"
                      => current_roi_drawing' = None ]_vars

\* the button was pressed in step 3 and the mouse went down on the canvas
ReadyKeepsRoisWitness ==
    /\ handler = "on_mouse_down"
    /\ current_roi_step = 3
    /\ through_widgets
    /\ btn_redraw_roi = "normal"
    /\ ~drawing
    /\ current_roi_drawing = None
    /\ roi2 # None

(***************************************************************************)
(* C25  ROI selector invariant: after any sequence of select_video, mouse  *)
(* down/move/up, confirm_current_roi and redraw_current_roi calls,         *)
(* current_roi_step = 3 (the only state in which 'Start Processing' is     *)
(* enabled) implies that roi1 and roi2 are both set; step 2 is reached     *)
(* only by confirming a drawn rectangle in step 1 and step 3 only by       *)
(* confirming a drawn rectangle in step 2; confirm_current_roi with no     *)
(* drawn rectangle changes neither the step nor any ROI.                   *)
(***************************************************************************)
RoiStepsSound ==
    [][ /\ current_roi_step' = 3 => (roi1' # None /\ roi2' # None)
        /\ btn_process' = "normal" => current_roi_step' = 3
        /\ (current_roi_step' = 2 /\ current_roi_step # 2)
               => /\ handler' = "confirm_current_roi"
                  /\ current_roi_step = 1
                  /\ current_roi_drawing # None
                  /\ roi1' = current_roi_drawing
        /\ (current_roi_step' = 3 /\ current_roi_step # 3)
               => /\ handler' = "confirm_current_roi"
                  /\ current_roi_step = 2
                  /\ current_roi_drawing # None
                  /\ roi2' = current_roi_drawing
        /\ (handler' = "confirm_current_roi" /\ current_roi_drawing = None)
               => /\ current_roi_step' = current_roi_step
                  /\ roi1' = roi1
                  /\ roi2' = roi2 ]_vars

\* in step 3, with two different ROIs, a confirm found no drawn rectangle
RoiStepsWitness ==
    /\ current_roi_step = 3
    /\ roi1 # None /\ roi2 # None
    /\ roi1 # roi2
    /\ btn_process = "normal"
    /\ handler = "confirm_current_roi"
    /\ message = "draw_first"

=============================================================================
